---- MODULE Spec2Model ----
(***************************************************************************)
(* Price series reconstruction and statistics of the Tesco Price Tracker   *)
(* content script (src/extension/content/content.js).                      *)
(*                                                                         *)
(* Time is counted in ticks of the observer's local clock, Hour of them to *)
(* the hour: an instant is a natural number, instant \div OneDay is its    *)
(* calendar day and instant % OneDay its time of the day.  A JavaScript    *)
(* Date is an instant, or NaN for an Invalid Date.  Two reads of the clock *)
(* in one call can differ by some ticks; they are taken within the same    *)
(* hour.  Daylight-saving shifts and the year that the chart label drops   *)
(* are outside the model.  A price is a natural number of price units      *)
(* (PriceUnit of them make one forint), or Null for a JSON null / absent   *)
(* field (calculateStats treats null and undefined alike).                 *)
(*                                                                         *)
(* The popup (src/unnamed/part_001) and the background script              *)
(* (src/extension/background/background.js) are the third part: the switch *)
(* of the popup, the stored state and the relay of it to the tabs.         *)
(***************************************************************************)
EXTENDS Integers, Sequences, FiniteSets, TLC

(***************************************************************************)
(* Bounds of the checked instances.                                        *)
(***************************************************************************)
MaxLen == 2
MaxDay == 3
MaxContainers == 3
MaxPendingInjects == 2
MaxToggles == 2
MaxTabs == 2

(***************************************************************************)
(* Values of the program.                                                  *)
(***************************************************************************)
Null == -1
NaN == -2

\* The ticks of the clock in an hour: as many as a call reads the clock for
\* the records of a history, so that every read can give another instant.
Hour == MaxLen

\* const oneDay = 24 * 60 * 60 * 1000, line 119.
OneDay == 24 * Hour

\* "today" of every run: one day before the last day an observation can carry,
\* so that observations before, on and after today all occur.
Today == MaxDay - 1

\* Hours of the day a capture can carry, and hours at which the script can run
\* (exactly midnight, before noon, at noon).
CaptureHours == {9, 18}
NowHours == {0, 11, 12}

\* h.timestamp: an ISO string that parses (kind "iso", at instant t), a string
\* that does not parse ("malformed"), or null / "" / absent ("missing").
IsoTimestamps(days, hours) ==
  {[kind |-> "iso", t |-> d * OneDay + h * Hour] : d \in days, h \in hours}

Timestamps ==
  IsoTimestamps(0..MaxDay, CaptureHours)
    \cup {[kind |-> "malformed", t |-> 0], [kind |-> "missing", t |-> 0]}

\* price_actual and clubcard_price are REAL (schema.sql 18, 26): the prices are
\* counted in units of which PriceUnit make one forint, so that Ft(100) - 1 is
\* 99.5 Ft.
PriceUnit == 2

Ft(n) == n * PriceUnit

PriceValues == {Null, 0, Ft(100), Ft(100) - 1}
ClubcardValues == {Null, 0, Ft(90)}

\* Records of response.history.  Three families keep the instances small: every
\* kind of timestamp with a known price and no clubcard price, every
\* combination of prices captured in the morning of a day up to today, and
\* (MidwayObservations) prices whose change is midway between two tenths.
TimedObservations ==
  [timestamp : Timestamps, price_actual : {Ft(100), Ft(120)}, clubcard_price : {Null}]

PricedObservations ==
  [timestamp : IsoTimestamps(0..Today, {9}),
   price_actual : PriceValues, clubcard_price : ClubcardValues]

\* Prices whose change is a percentage midway between two tenths: from 80 to 29
\* (-63.75 %), from 80 to 103 (28.75 %), from 200 to 200.5 (0.25 %).
MidwayValues == {Ft(80), Ft(29), Ft(103), Ft(200), Ft(200) + 1}

MidwayObservations ==
  [timestamp : IsoTimestamps({Today - 1, Today}, {9}),
   price_actual : MidwayValues, clubcard_price : {Null}]

SeqsUpTo(S, n) == UNION {[1..k -> S] : k \in 0..n}

Instants(hours) == {Today * OneDay + h * Hour : h \in hours}

\* The inputs of a cycle: the history fetched and the instant of the run.  The
\* hour of the run is read by parseDate for a record without timestamp only, so
\* it varies with the histories that hold such records.
Inputs ==
  (SeqsUpTo(TimedObservations, MaxLen) \X Instants(NowHours))
    \cup (SeqsUpTo(PricedObservations, MaxLen) \X Instants({11}))
    \cup (SeqsUpTo(MidwayObservations, MaxLen) \X Instants({11}))

\* readPagePrice returns a number > 0 or null.
PagePrices == {Null, Ft(90)}

VARIABLES
  history,      \* what getRealData returned to the cycle (realHistory, line 736)
  now,          \* the instant at which the cycle resumes (value of new Date())
  pagePrice,    \* const pagePrice of injectPriceTracker (line 704)
  pc,           \* "awaiting": at the await of line 736; "rendered": after line 791
  processed,    \* value returned by processRealData (line 744)
  hasHistory,   \* let hasHistory (line 741)
  derived,      \* value returned by calculateStats (line 763)
  stats,        \* the stats object after line 764
  chart,        \* labels, prices, clubcardPrices handed to renderChart (line 791)
  url,          \* window.location: the product id in the path and the rest of it
  lastTpnc,     \* let lastTpnc (line 1121)
  g_isEnabled,  \* line 1026
  g_observer,   \* line 1027: TRUE while a MutationObserver is connected
  g_isInjecting,    \* line 1028
  g_chartInstance,  \* line 1030: the container whose canvas the chart is on, 0 for null
  g_debounceTimer,  \* line 1047: the pending timeout of the observer, if any
  dom,          \* the tracker containers attached to the document
  containers,   \* the container elements injectPriceTracker has built
  inflight,     \* the cycles of injectPriceTracker suspended at the await of line 736
  pendingInjects,   \* pending setTimeout(() => injectPriceTracker(), 500) of the URL poll
  storageRead,  \* the promise of browser.storage.local.get (line 1110) has resolved
  mutationPending,  \* the observer has mutation records it has not yet been called with
  extensionEnabled, \* browser.storage.local: the value stored and the toggle that wrote it
  checked,      \* toggleSwitch.checked of the popup
  popupRead,    \* the read of part_001 32: whether it is pending, and the value it got
  clicked,      \* the states the change events of the popup asked for, in order
  writes,       \* calls of browser.storage.local.set whose write is not yet done
  handlers,     \* change handlers of the popup suspended at the await of line 44
  toBackground, \* TOGGLE_EXTENSION messages sent and not yet received
  toggling,     \* calls of handleToggle suspended at an await (background.js 104, 110)
  tabs,         \* what browser.tabs.query({}) returns: the open tabs, in order
  attempts,     \* the calls of browser.tabs.sendMessage that have settled
  finished      \* the toggles whose call of handleToggle has returned

dataVars == <<history, now, pagePrice, pc, processed, hasHistory, derived, stats, chart>>
pageVars == <<url, lastTpnc, g_isEnabled, g_observer, g_isInjecting, g_chartInstance,
              g_debounceTimer, dom, containers, inflight, pendingInjects, storageRead,
              mutationPending>>

toggleVars == <<extensionEnabled, checked, popupRead, clicked, writes, handlers,
                toBackground, toggling, tabs, attempts, finished>>

vars == <<dataVars, pageVars, toggleVars>>

(***************************************************************************)
(* Helpers on sequences.                                                   *)
(***************************************************************************)
\* Variant: the filter keeps every entry, gaps included.
SelectNonNull_KeepAll(ps) == ps

RECURSIVE SelectNonNull(_)
\* prices.filter(p => p !== null && p !== undefined)
SelectNonNull(ps) ==
  IF ps = <<>> THEN <<>>
  ELSE IF Head(ps) # Null THEN <<Head(ps)>> \o SelectNonNull(Tail(ps))
  ELSE SelectNonNull(Tail(ps))

RECURSIVE SumSeq(_)
\* validPrices.reduce((a, b) => a + b, 0)
SumSeq(ps) == IF ps = <<>> THEN 0 ELSE Head(ps) + SumSeq(Tail(ps))

RECURSIVE MinSeq(_)
\* Math.min(...validPrices), validPrices not empty
MinSeq(ps) ==
  IF Len(ps) = 1 THEN ps[1]
  ELSE LET m == MinSeq(Tail(ps)) IN IF Head(ps) < m THEN Head(ps) ELSE m

RECURSIVE MaxSeq(_)
\* Math.max(...validPrices), validPrices not empty
MaxSeq(ps) ==
  IF Len(ps) = 1 THEN ps[1]
  ELSE LET m == MaxSeq(Tail(ps)) IN IF Head(ps) > m THEN Head(ps) ELSE m

Abs(x) == IF x < 0 THEN -x ELSE x

\* Math.round(n / d) for n >= 0, d > 0: halves round up.
RoundDiv(n, d) == (2 * n + d) \div (2 * d)

\* Math.round(n / d) of an amount n of price units, n >= 0: whole forints.
MathRound(n, d) == Ft(RoundDiv(n, d * PriceUnit))

(***************************************************************************)
(* Dates.                                                                  *)
(***************************************************************************)
\* diffDays(d1, d2): Math.round(Math.abs((d1 - d2) / oneDay)); NaN if a date is.
diffDays(d1, d2) ==
  IF d1 = NaN \/ d2 = NaN THEN NaN ELSE RoundDiv(Abs(d1 - d2), OneDay)

\* d.setHours(0, 0, 0, 0): local midnight of the date's day; NaN stays NaN.
setHoursMidnight(d) == IF d = NaN THEN NaN ELSE (d \div OneDay) * OneDay

\* parseDate(str) with the clock at instant n: a missing string gives new
\* Date() with its time of day; otherwise the parsed date at local midnight.
parseDate(str, n) ==
  IF str.kind = "missing" THEN n
  ELSE setHoursMidnight(IF str.kind = "iso" THEN str.t ELSE NaN)

\* formatDate(dateObj, locale): day and month of the date, time of day dropped.
formatDate(d) == d \div OneDay

(***************************************************************************)
(* processRealData.                                                        *)
(***************************************************************************)
\* What the clock shows at each read of it in a call of processRealData that
\* starts at instant n: every call of parseDate on a record without timestamp
\* reads the clock anew (line 130), the read of line 189 (endDate) comes after
\* them, and the clock does not go back.  r[i] is the read for the i-th
\* record (a record with a timestamp reads no clock; its entry stays n),
\* r[Len(h) + 1] the read of line 189.
ClockReads(h, n) ==
  LET reads == {i \in 1..Len(h) : h[i].timestamp.kind = "missing"} \cup {Len(h) + 1}
  IN {r \in [1..(Len(h) + 1) -> n..(n + Hour - 1)] :
        /\ \A i \in 1..Len(h) \ reads : r[i] = n
        /\ \A i, j \in reads : i <= j => r[i] <= r[j]}

\* history.map(h => ({date, price, clubcardPrice})), lines 175-179, with the
\* clock at r[i] when the i-th record is mapped.
MapHistory(h, r) ==
  [i \in 1..Len(h) |->
     [date |-> parseDate(h[i].timestamp, r[i]),
      price |-> h[i].price_actual,
      clubcardPrice |-> h[i].clubcard_price]]

\* (a, b) => a.date - b.date is a consistent comparator iff no date is NaN.
ConsistentComparator(m) == \A i \in 1..Len(m) : m[i].date # NaN

RECURSIVE InsertByDate(_, _)
\* x placed after every element whose date is not greater (stable).
InsertByDate(s, x) ==
  IF s = <<>> THEN <<x>>
  ELSE IF x.date < Head(s).date THEN <<x>> \o s
  ELSE <<Head(s)>> \o InsertByDate(Tail(s), x)

RECURSIVE StableSortByDate(_)
\* Array.prototype.sort with a consistent comparator: ascending and stable.
StableSortByDate(m) ==
  IF m = <<>> THEN <<>>
  ELSE InsertByDate(StableSortByDate(SubSeq(m, 1, Len(m) - 1)), m[Len(m)])

Arrangements(m) ==
  {[i \in 1..Len(m) |-> m[p[i]]] :
     p \in {q \in [1..Len(m) -> 1..Len(m)] :
              \A i, j \in 1..Len(m) : q[i] = q[j] => i = j}}

\* .sort((a, b) => a.date - b.date), line 180.  With an Invalid Date among the
\* elements the comparator returns NaN and ECMAScript leaves the order to the
\* implementation: every permutation is a possible outcome.
SortOutcomes(m) ==
  IF ConsistentComparator(m) THEN {StableSortByDate(m)} ELSE Arrangements(m)

\* priceMap / clubcardMap after the forEach of lines 210-213: the entry of a key
\* is the one set last, i.e. the last element of sorted with that date.
LastIndexAt(sorted, time) ==
  LET S == {i \in 1..Len(sorted) : sorted[i].date = time}
  IN IF S = {} THEN 0 ELSE CHOOSE i \in S : \A j \in S : j <= i

\* clubcardMap.get(time) || null
OrNull(v) == IF v = Null \/ v = 0 THEN Null ELSE v

\* Lines 182-232 on the sorted array; endDate is the midnight of the day of
\* instant n, the read of the clock of line 189.
AlignSorted(sorted, n) ==
  IF Len(sorted) = 0 THEN [labels |-> <<>>, prices |-> <<>>, clubcardPrices |-> <<>>]
  ELSE
    LET startDate == sorted[1].date
        endDate == setHoursMidnight(n)
        totalDays == diffDays(endDate, startDate)
        count == IF totalDays = NaN THEN 0 ELSE totalDays + 1
        cur(i) == startDate + (i - 1) * OneDay
        k(i) == LastIndexAt(sorted, cur(i))
    IN [labels |-> [i \in 1..count |-> formatDate(cur(i))],
        prices |-> [i \in 1..count |-> IF k(i) # 0 THEN sorted[k(i)].price ELSE Null],
        clubcardPrices |->
          [i \in 1..count |-> IF k(i) # 0 THEN OrNull(sorted[k(i)].clubcardPrice) ELSE Null]]

\* The values processRealData(history) can return when called at instant n.
processRealData(h, n) ==
  UNION {{AlignSorted(s, r[Len(h) + 1]) : s \in SortOutcomes(MapHistory(h, r))} :
           r \in ClockReads(h, n)}

(***************************************************************************)
(* calculateStats.                                                         *)
(***************************************************************************)
Digit(d) ==
  CASE d = 0 -> "0" [] d = 1 -> "1" [] d = 2 -> "2" [] d = 3 -> "3" [] d = 4 -> "4"
    [] d = 5 -> "5" [] d = 6 -> "6" [] d = 7 -> "7" [] d = 8 -> "8" [] d = 9 -> "9"

RECURSIVE Decimal(_)
\* the decimal digits of a natural number
Decimal(n) == IF n < 10 THEN Digit(n) ELSE Decimal(n \div 10) \o Digit(n % 10)

\* Binary digits in the significand of a Number (IEEE 754 binary64).
Significand == 53

RECURSIVE BitLength(_)
\* the number of binary digits of a natural number
BitLength(q) == IF q = 0 THEN 0 ELSE 1 + BitLength(q \div 2)

\* Binary digits a step of the long division makes at once.
Chunk == 8

RECURSIVE DivideBits(_, _, _, _, _)
\* k more binary digits of the quotient of a long division by b that stands at
\* remainder r < b after s digits behind the point, the last of them `last':
\* the remainder, the last digit and the number of digits behind the point.
\* The digits are made Chunk at a time (r * 2^Chunk stays a small integer).
DivideBits(r, b, k, last, s) ==
  IF k = 0 THEN [rem |-> r, last |-> last, scale |-> s]
  ELSE LET step == IF k >= Chunk THEN Chunk ELSE k
           shifted == r * 2^step
       IN DivideBits(shifted % b, b, k - step, (shifted \div b) % 2, s + step)

RECURSIVE SkipZeros(_, _, _)
\* The quotient of r / b, 0 < r < b, from its first binary digit 1 on.
SkipZeros(r, b, s) ==
  IF (2 * r) \div b = 1 THEN DivideBits((2 * r) % b, b, Significand - 1, 1, s + 1)
  ELSE SkipZeros(2 * r, b, s + 1)

\* The first Significand binary digits of a / b, a > 0, b > 0: with m the number
\* they spell, a / b = (m + rem / b) / 2^scale, and last is the last digit of m.
Truncated(a, b) ==
  IF a \div b >= 1
  THEN DivideBits(a % b, b, Significand - BitLength(a \div b), (a \div b) % 2, 0)
  ELSE SkipZeros(a, b, 0)

\* Round to nearest, ties to even, of m + n / d where m has last digit `last':
\* what is added to m.
NearestEven(n, d, last) ==
  LET fl == n \div d
      rest == n - fl * d
  IN fl + (IF 2 * rest > d \/ (2 * rest = d /\ (last + fl) % 2 = 1) THEN 1 ELSE 0)

\* (a / b) * 100 in Number arithmetic compared with the exact 100 a / b, for
\* a > 0, b > 0: TRUE iff the Number is not below it.  The quotient is a / b
\* moved by dn / b units of its last digit, the product is 100 times that,
\* rounded again; a unit of the last digit of the quotient is 2^shift units
\* of the last digit of the product.  Right below a power of two (the exact
\* value 1/4 is one) the Numbers are half as far apart.
ProductNotBelow(a, b) ==
  LET q == Truncated(a, b)
      dn == IF 2 * q.rem > b \/ (2 * q.rem = b /\ q.last = 1) THEN b - q.rem ELSE -q.rem
      t == Truncated(100 * a, b)
      shift == q.scale - t.scale
      n == t.rem * 2^shift + 100 * dn
      d == b * 2^shift
  IN IF 400 * a = b /\ n < 0
     THEN 4 * n >= -d
     ELSE NearestEven(n, d, t.last) * b >= t.rem

\* Variant: the tenths are cut off instead of rounded.
toFixed1_Truncating(trend, first) ==
  LET tenths == (1000 * Abs(trend)) \div first
  IN (IF trend < 0 THEN "-" ELSE "") \o Decimal(tenths \div 10) \o "." \o Digit(tenths % 10)

\* ((trend / first) * 100).toFixed(1) for first > 0, line 296: the sign, then
\* the tenth nearest to the magnitude of the Number (trend / first) * 100; a
\* negative value that rounds to zero keeps its sign ("-0.0").  The Number is
\* the exact percentage rounded twice, by the division and by the product:
\* when the exact percentage lies midway between two tenths the Number can lie
\* below it, and toFixed then gives the lower tenth (-63.75 gives "-63.7");
\* when the Number is exactly midway toFixed gives the larger tenth.
toFixed1(trend, first) ==
  LET a == Abs(trend)
      twice == (2000 * a) \div first
      midway == (2000 * a) % first = 0 /\ twice % 2 = 1
      tenths == IF midway
                THEN (twice - 1) \div 2 + (IF ProductNotBelow(a, first) THEN 1 ELSE 0)
                ELSE RoundDiv(1000 * a, first)
  IN (IF trend < 0 THEN "-" ELSE "") \o Decimal(tenths \div 10) \o "." \o Digit(tenths % 10)

\* Variant: current is read from the last day of the series, known or not.
calculateStats_CurrentFromLastDay(prices) ==
  LET validPrices == SelectNonNull(prices)
  IN IF Len(validPrices) = 0
     THEN [min |-> 0, max |-> 0, avg |-> 0, current |-> 0, trend |-> 0,
           trendPercent |-> "0.0"]
     ELSE
       LET current == prices[Len(prices)]
           first == validPrices[1]
           trend == current - first
       IN [min |-> MinSeq(validPrices),
           max |-> MaxSeq(validPrices),
           avg |-> MathRound(SumSeq(validPrices), Len(validPrices)),
           current |-> current,
           trend |-> trend,
           trendPercent |-> IF first # 0 THEN toFixed1(trend, first) ELSE "0.0"]

\* Variant: without the early return for no data, the values JavaScript computes
\* from an empty list (Math.min() and friends) are not numbers.
calculateStats_NoEarlyReturn(prices) ==
  LET validPrices == SelectNonNull(prices)
  IN IF Len(validPrices) = 0
     THEN [min |-> NaN, max |-> NaN, avg |-> NaN, current |-> Null, trend |-> NaN,
           trendPercent |-> "NaN"]
     ELSE
       LET current == validPrices[Len(validPrices)]
           first == validPrices[1]
           trend == current - first
       IN [min |-> MinSeq(validPrices),
           max |-> MaxSeq(validPrices),
           avg |-> MathRound(SumSeq(validPrices), Len(validPrices)),
           current |-> current,
           trend |-> trend,
           trendPercent |-> IF first # 0 THEN toFixed1(trend, first) ELSE "0.0"]

\* Variant: the sum of the known prices is not divided by their number.
calculateStats_SumAsAvg(prices) ==
  LET validPrices == SelectNonNull(prices)
  IN IF Len(validPrices) = 0
     THEN [min |-> 0, max |-> 0, avg |-> 0, current |-> 0, trend |-> 0,
           trendPercent |-> "0.0"]
     ELSE
       LET current == validPrices[Len(validPrices)]
           first == validPrices[1]
           trend == current - first
       IN [min |-> MinSeq(validPrices),
           max |-> MaxSeq(validPrices),
           avg |-> MathRound(SumSeq(validPrices), 1),
           current |-> current,
           trend |-> trend,
           trendPercent |-> IF first # 0 THEN toFixed1(trend, first) ELSE "0.0"]

\* calculateStats(prices), lines 279-299
calculateStats(prices) ==
  LET validPrices == SelectNonNull(prices)
  IN IF Len(validPrices) = 0
     THEN [min |-> 0, max |-> 0, avg |-> 0, current |-> 0, trend |-> 0,
           trendPercent |-> "0.0"]
     ELSE
       LET current == validPrices[Len(validPrices)]
           first == validPrices[1]
           trend == current - first
       IN [min |-> MinSeq(validPrices),
           max |-> MaxSeq(validPrices),
           avg |-> MathRound(SumSeq(validPrices), Len(validPrices)),
           current |-> current,
           trend |-> trend,
           trendPercent |-> IF first # 0 THEN toFixed1(trend, first) ELSE "0.0"]

\* Variant: the live price also moves the trend.
LiveOverride_Blended(s, pp) ==
  IF pp # Null /\ pp # 0
  THEN [s EXCEPT !.current = pp, !.trend = pp - (s.current - s.trend)]
  ELSE s

\* if (pagePrice) stats.current = pagePrice;  line 764
LiveOverride(s, pp) == IF pp # Null /\ pp # 0 THEN [s EXCEPT !.current = pp] ELSE s

\* Variant: the displayed current value is written into the last day of the series.
renderChart_LiveIntoSeries(labels, prices, clubcardPrices, s) ==
  [labels |-> labels,
   prices |-> [i \in 1..Len(prices) |-> IF i = Len(prices) THEN s.current ELSE prices[i]],
   clubcardPrices |-> clubcardPrices]

\* renderChart(canvas, labels, prices, clubcardPrices, stats, t): the labels and
\* the data of the two datasets of the chart it creates (lines 847-867).
renderChart(labels, prices, clubcardPrices, s) ==
  [labels |-> labels, prices |-> prices, clubcardPrices |-> clubcardPrices]

(***************************************************************************)
(* The cycle of injectPriceTracker from the await of line 736 to the end.  *)
(***************************************************************************)
EmptySeries == [labels |-> <<>>, prices |-> <<>>, clubcardPrices |-> <<>>]
NoStats == [min |-> 0, max |-> 0, avg |-> 0, current |-> 0, trend |-> 0,
            trendPercent |-> "0.0"]

(***************************************************************************)
(* The page: its URL, the tracker containers, the answers of the           *)
(* background script.                                                      *)
(***************************************************************************)
\* getTpncFromUrl() returned null: the path holds no /products/<digits>.
NoTpnc == "none"

Tpncs == {"A", "B"}

\* A location is the product id of its path and whatever else the URL holds:
\* two locations for each product, one that is not of a product.
Urls == [tpnc : Tpncs, rest : {0, 1}] \cup {[tpnc |-> NoTpnc, rest |-> 0]}

\* Lines 142-145.
getTpncFromUrl == url.tpnc

ContainerIds == 1..MaxContainers

\* document.getElementById(CONTAINER_ID) found no element.
NoContainer == 0

\* An element not built, or one nothing refers to any more.
BlankContainer == [tpnc |-> NoTpnc, loading |-> FALSE, hasChart |-> FALSE]

\* Lines 622-693: dataset.tpnc is the product of the cycle, the chart wrapper
\* has the class tpt-loading, the canvas has no chart yet.
NewContainer(tpnc) == [tpnc |-> tpnc, loading |-> TRUE, hasChart |-> FALSE]

NoTimer == [kind |-> "none", container |-> NoContainer]

\* One capture of today, as the history of a product that has one.
OneObservation ==
  <<[timestamp |-> [kind |-> "iso", t |-> Today * OneDay + 9 * Hour],
     price_actual |-> Ft(100), clubcard_price |-> Null]>>

\* What comes back for a FETCH_HISTORY message: the promise rejects or the
\* background answers {error} (background.js 92-99, 126-127), or it answers
\* {name, history} with the price_history of the product or [] (line 132).
FetchFailed == [kind |-> "failed", history |-> <<>>]

Responses ==
  {FetchFailed, [kind |-> "ok", history |-> <<>>], [kind |-> "ok", history |-> OneObservation]}

\* Lines 147-164, the value returned: the history when the response has a
\* non-empty one, null (here the empty list) in every other case.
getRealData_ErrorAsHistory(response) ==
  IF response.kind = "ok" /\ Len(response.history) > 0
  THEN response.history
  ELSE IF response.kind = "failed" THEN OneObservation ELSE <<>>

getRealData(response) ==
  IF response.kind = "ok" /\ Len(response.history) > 0 THEN response.history ELSE <<>>

\* Lines 148-155, the FETCH_HISTORY messages one call of getRealData sends.
RequestsSent_Again(tpnc) == IF tpnc = NoTpnc THEN 0 ELSE 2

RequestsSent(tpnc) == IF tpnc = NoTpnc THEN 0 ELSE 1

\* document.getElementById(CONTAINER_ID) on a document holding the containers
\* d: the first of them, here the one with the lowest index.
getElementById(d) ==
  IF d = {} THEN NoContainer ELSE CHOOSE c \in d : \A o \in d : c <= o

\* The elements something still refers to: the document, a suspended cycle
\* (const container), the closure of the observer's timeout, the chart.
Referenced(d, cycles, timer, chartOn) ==
  (d \cup {cy.container : cy \in cycles} \cup {timer.container, chartOn}) \ {NoContainer}

\* Of an element out of the document nothing is read any more.
Collect(cs, d) ==
  [i \in ContainerIds |-> IF i \in d THEN cs[i] ELSE BlankContainer]

\* Line 600.
InjectionBlocked_Never == FALSE

InjectionBlocked == g_isInjecting

\* Lines 607-615: the container in the document is of this product and its
\* canvas has a chart (canvas._tptChart || g_chartInstance).
WidgetIntact_Never(d) == FALSE

WidgetIntact(d) ==
  LET existing == getElementById(d)
  IN /\ existing # NoContainer
     /\ containers[existing].tpnc = getTpncFromUrl
     /\ (containers[existing].hasChart \/ g_chartInstance # NoContainer)

\* Lines 616-617: the element found, of another product or without chart, is
\* taken out of the document before the new one is built.
WithoutExisting_Kept(d) == d

WithoutExisting(d) == d \ {getElementById(d)}

\* Lines 605-606 and 793-795: the flag is set before the try and the finally
\* sets it false, by whichever way the body is left: the return of line 614
\* ("intact"), an exception ("thrown"), the return of line 758 ("stale"), the
\* end of the body ("rendered").
FlagOnExit_AtEndOfBody(exit) == exit # "rendered"

FlagOnExit(exit) == FALSE

\* A step of lines 621-721 (the strings, the insertion point, the elements of
\* the placeholder) throws: no request is sent, the promise of the call
\* rejects.
Thrown == [kind |-> "thrown", history |-> <<>>]

\* What a call of injectPriceTracker meets: the answer its request will get,
\* or an exception while it builds the placeholder.
Attempts == Responses \cup {Thrown}

\* Lines 599-736 of injectPriceTracker, up to the await, called on a document
\* holding the containers d; r is what the call meets.  The value is the state
\* the call leaves.  The new element is one nothing refers to: the script
\* refers to MaxContainers elements at most at a time (the one in the closure
\* of the observer's timeout, the one of g_chartInstance, the new one), so an
\* identifier is free at every call.
injectPriceTracker(d, r) ==
  LET tpnc == getTpncFromUrl
      existing == getElementById(d)
      removed == WithoutExisting(d)
      free == ContainerIds \ Referenced(removed, inflight, g_debounceTimer, g_chartInstance)
      c == CHOOSE i \in free : \A o \in free : i <= o
      left == [dom |-> d, containers |-> containers, inflight |-> inflight,
               injecting |-> g_isInjecting, mutated |-> FALSE]
  IN IF InjectionBlocked \/ tpnc = NoTpnc THEN left
     ELSE IF WidgetIntact(d) THEN [left EXCEPT !.injecting = FlagOnExit("intact")]
     ELSE IF r = Thrown
       THEN [left EXCEPT !.dom = removed, !.injecting = FlagOnExit("thrown"),
                         !.mutated = (removed # d)]
     ELSE [dom |-> removed \cup {c},
           containers |-> [containers EXCEPT ![c] = NewContainer(tpnc)],
           inflight |-> inflight \cup
             {[tpnc |-> tpnc, container |-> c, response |-> r,
               requests |-> RequestsSent(tpnc)]},
           injecting |-> TRUE,
           mutated |-> TRUE]

\* The state a handler leaves that called injectPriceTracker, disturbed the
\* document before it (mutated), and leaves the observer connected or not.
Leave(res, mutated, observing) ==
  /\ dom' = res.dom
  /\ inflight' = res.inflight
  /\ g_isInjecting' = res.injecting
  /\ g_observer' = observing
  /\ mutationPending' =
       (g_observer /\ observing /\ (mutationPending \/ mutated \/ res.mutated))
  /\ pc' = IF res.inflight # inflight THEN "awaiting" ELSE pc
  /\ containers' = Collect(res.containers, res.dom)
  /\ UNCHANGED <<history, now, pagePrice, processed, hasHistory, derived, stats, chart>>
  /\ UNCHANGED toggleVars

\* The state of a call that did nothing.
Untouched ==
  [dom |-> dom, containers |-> containers, inflight |-> inflight,
   injecting |-> g_isInjecting, mutated |-> FALSE]

(***************************************************************************)
(* The end of a cycle: lines 736-796, from the answer to the finally.      *)
(***************************************************************************)
\* Lines 736-791 with the product unchanged during the fetch: the history is
\* processed when it is not empty, the statistics are computed from the prices,
\* the live price replaces the current value, and the chart is rendered.
ResumeWith(h, p) ==
  LET used == IF Len(h) > 0 /\ Len(p.labels) > 0 THEN p ELSE EmptySeries
      s == calculateStats(used.prices)
  IN /\ history' = h
     /\ processed' = p
     /\ hasHistory' = (Len(h) > 0 /\ Len(p.labels) > 0)
     /\ derived' = s
     /\ stats' = LiveOverride(s, pagePrice)
     /\ chart' = renderChart(used.labels, used.prices, used.clubcardPrices, stats')
     /\ pc' = "rendered"
     /\ UNCHANGED <<now, pagePrice>>

\* Lines 755-756.
IsStale_Never(cy) == FALSE

IsStale(cy) == getTpncFromUrl # cy.tpnc

\* The cycle cy is resumed with its answer.  On another product by now, it
\* removes its container and returns (757-758); else it drops the loading
\* state (761), fills the cards and renders the chart, which destroys the
\* chart there was and keeps the new one in g_chartInstance and on the canvas
\* (renderChart 798-1005).  The finally releases the flag.
Resume(cy) ==
  LET realHistory == getRealData(cy.response)
      c == cy.container
      attached == c \in dom
  IN /\ inflight' = inflight \ {cy}
     /\ g_isInjecting' = FlagOnExit(IF IsStale(cy) THEN "stale" ELSE "rendered")
     /\ mutationPending' = (g_observer /\ (mutationPending \/ attached))
     /\ UNCHANGED <<url, lastTpnc, g_isEnabled, g_observer, g_debounceTimer,
                    pendingInjects, storageRead, toggleVars>>
     /\ IF IsStale(cy)
        THEN /\ dom' = dom \ {c}
             /\ g_chartInstance' = g_chartInstance
             /\ containers' = Collect(containers, dom')
             /\ UNCHANGED dataVars
        ELSE /\ dom' = dom
             /\ g_chartInstance' = c
             /\ containers' =
                  Collect([containers EXCEPT ![c].loading = FALSE, ![c].hasChart = TRUE], dom)
             /\ \E p \in (IF Len(realHistory) > 0
                          THEN processRealData(realHistory, now)
                          ELSE {EmptySeries}) :
                  ResumeWith(realHistory, p)

(***************************************************************************)
(* The switch: the popup, the stored state, the tabs of the browser.       *)
(***************************************************************************)
\* tab.url is undefined.
NoUrl == "unset"

\* The URL of a tab, as far as handleToggle reads it: what it starts with.
TabUrls == {NoUrl, "about:", "moz-extension:", "https:"}

\* A tab: its URL and whether a content script of the extension listens in it
\* (tabs.sendMessage rejects when none does).
TabStates ==
  {[url |-> u, listening |-> FALSE] : u \in TabUrls}
    \cup {[url |-> "https:", listening |-> TRUE]}

\* background.js 143-145: the installation stores true.
Installed == [value |-> TRUE, by |-> 0]

\* Nobody has touched the switch, which shows the stored state; the browser
\* shows the one tab of the page.
PopupClosed ==
  /\ extensionEnabled = Installed
  /\ checked = extensionEnabled.value
  /\ popupRead = [pending |-> FALSE, value |-> extensionEnabled.value]
  /\ clicked = <<>>
  /\ writes = <<>>
  /\ handlers = <<>>
  /\ toBackground = <<>>
  /\ toggling = {}
  /\ tabs = <<[url |-> "https:", listening |-> TRUE]>>
  /\ attempts = {}
  /\ finished = {}

(***************************************************************************)
(* The data pipeline alone: a cycle of product A is suspended at the await *)
(* and its request is answered with any of the bounded histories.          *)
(***************************************************************************)
AwaitingCycle(h) ==
  [tpnc |-> "A", container |-> 1, response |-> [kind |-> "ok", history |-> h],
   requests |-> RequestsSent("A")]

Init ==
  /\ \E input \in Inputs : history = input[1] /\ now = input[2]
  /\ pagePrice \in PagePrices
  /\ pc = "awaiting"
  /\ processed = EmptySeries
  /\ hasHistory = FALSE
  /\ derived = NoStats
  /\ stats = NoStats
  /\ chart = EmptySeries
  /\ url = [tpnc |-> "A", rest |-> 0]
  /\ lastTpnc = "A"
  /\ g_isEnabled = TRUE
  /\ g_observer = TRUE
  /\ g_isInjecting = TRUE
  /\ g_chartInstance = NoContainer
  /\ g_debounceTimer = NoTimer
  /\ dom = {1}
  /\ containers = [i \in ContainerIds |-> IF i = 1 THEN NewContainer("A") ELSE BlankContainer]
  /\ inflight = {AwaitingCycle(history)}
  /\ pendingInjects = 0
  /\ storageRead = TRUE
  /\ mutationPending = FALSE
  /\ PopupClosed

RenderHistory ==
  /\ pc = "awaiting"
  /\ \E cy \in inflight : Len(getRealData(cy.response)) > 0 /\ Resume(cy)

RenderNoHistory ==
  /\ pc = "awaiting"
  /\ \E cy \in inflight : Len(getRealData(cy.response)) = 0 /\ Resume(cy)

Next == RenderHistory \/ RenderNoHistory

Spec == Init /\ [][Next]_vars

(***************************************************************************)
(* The content script on a page: its handlers, one action each.            *)
(***************************************************************************)
PageLoaded ==
  /\ history = <<>>
  /\ now = Today * OneDay + 11 * Hour
  /\ pagePrice = Ft(90)
  /\ pc = "idle"
  /\ processed = EmptySeries
  /\ hasHistory = FALSE
  /\ derived = NoStats
  /\ stats = NoStats
  /\ chart = EmptySeries
  /\ url \in {u \in Urls : u.rest = 0 /\ u.tpnc # "B"}
  /\ lastTpnc = url.tpnc
  /\ g_isEnabled = FALSE
  /\ g_observer = FALSE
  /\ g_isInjecting = FALSE
  /\ g_chartInstance = NoContainer
  /\ g_debounceTimer = NoTimer
  /\ dom = {}
  /\ containers = [i \in ContainerIds |-> BlankContainer]
  /\ inflight = {}
  /\ pendingInjects = 0
  /\ storageRead = FALSE
  /\ mutationPending = FALSE

PageInit == PageLoaded /\ PopupClosed

\* Lines 1110-1117: the stored switch is read (absent means on); when on, the
\* tracker is injected and the observer started.
InitStorage ==
  /\ ~storageRead
  /\ storageRead' = TRUE
  /\ \E enabled \in BOOLEAN :
       /\ g_isEnabled' = enabled
       /\ UNCHANGED <<url, lastTpnc, g_chartInstance, g_debounceTimer, pendingInjects>>
       /\ IF enabled
          THEN \E r \in Attempts : Leave(injectPriceTracker(dom, r), FALSE, TRUE)
          ELSE Leave(Untouched, FALSE, g_observer)

\* Lines 1032-1043, the SET_ENABLED message: on, inject and start the observer
\* (1049-1050: no second observer); off, removePriceTracker (1009-1022) and
\* stopObserver (1101-1106).
SetEnabled(enabled) ==
  /\ g_isEnabled' = enabled
  /\ UNCHANGED <<url, lastTpnc, g_debounceTimer, pendingInjects, storageRead>>
  /\ IF enabled
     THEN /\ g_chartInstance' = g_chartInstance
          /\ \E r \in Attempts : Leave(injectPriceTracker(dom, r), FALSE, TRUE)
     ELSE LET container == getElementById(dom)
          IN /\ g_chartInstance' = NoContainer
             /\ Leave([Untouched EXCEPT !.dom = dom \ {container}],
                      container # NoContainer, FALSE)

\* The page changes its own elements under document.body.
PageMutation ==
  /\ g_observer
  /\ ~mutationPending
  /\ mutationPending' = TRUE
  /\ UNCHANGED <<dataVars, url, lastTpnc, g_isEnabled, g_observer, g_isInjecting,
                 g_chartInstance, g_debounceTimer, dom, containers, inflight,
                 pendingInjects, storageRead, toggleVars>>

\* Lines 1052-1093, the callback of the MutationObserver: the timeout it sets
\* (1061-1063, 1085-1092), NoTimer when it returns without setting one.
ObserverSets ==
  LET container == getElementById(dom)
      tpnc == getTpncFromUrl
      canvasMissingChart ==
        ~(containers[container].hasChart \/ g_chartInstance # NoContainer)
      tpncChanged == tpnc # NoTpnc /\ containers[container].tpnc # tpnc
  IN IF ~g_isEnabled THEN NoTimer
     ELSE IF container = NoContainer
       THEN IF g_isInjecting THEN NoTimer
            ELSE [kind |-> "inject", container |-> NoContainer]
     ELSE IF g_isInjecting THEN NoTimer
     ELSE IF containers[container].loading THEN NoTimer
     ELSE IF canvasMissingChart \/ tpncChanged
       THEN [kind |-> "replace", container |-> container]
     ELSE NoTimer

\* g_debounceTimer after the callback: a timeout it sets takes the place of
\* the pending one (clearTimeout, lines 1060 and 1085), which stays otherwise.
ObserverTimer == IF ObserverSets = NoTimer THEN g_debounceTimer ELSE ObserverSets

ObserverCallback ==
  /\ g_observer
  /\ mutationPending
  /\ mutationPending' = FALSE
  /\ g_debounceTimer' = ObserverTimer
  /\ UNCHANGED <<dataVars, url, lastTpnc, g_isEnabled, g_observer, g_isInjecting,
                 g_chartInstance, dom, containers, inflight, pendingInjects, storageRead,
                 toggleVars>>

\* The timeout of the observer fires after its 200 ms: line 1061, or lines
\* 1086-1091 with the container the callback saw.
DebounceFires ==
  /\ g_debounceTimer.kind # "none"
  /\ g_debounceTimer' = NoTimer
  /\ UNCHANGED <<url, lastTpnc, g_isEnabled, g_chartInstance, pendingInjects, storageRead>>
  /\ LET container == g_debounceTimer.container
     IN IF g_debounceTimer.kind = "inject"
        THEN \E r \in Attempts : Leave(injectPriceTracker(dom, r), FALSE, g_observer)
        ELSE IF g_isInjecting
        THEN Leave(Untouched, FALSE, g_observer)
        ELSE \E r \in Attempts :
               Leave(injectPriceTracker(dom \ {container}, r), container \in dom, g_observer)

\* Line 1126.
PollSeesChange_Always(currentTpnc) == TRUE

PollSeesChange(currentTpnc) == currentTpnc # lastTpnc

\* Lines 1123-1144, one tick of the 500 ms interval.  A timeout of 500 ms set
\* by an earlier tick has fired before a later tick sets another, which keeps
\* the pending ones within MaxPendingInjects.
PollTick ==
  LET currentTpnc == getTpncFromUrl
      oldContainer == getElementById(dom)
      removes == PollSeesChange(currentTpnc) /\ oldContainer # NoContainer
                   /\ currentTpnc # NoTpnc
      schedules == PollSeesChange(currentTpnc) /\ g_isEnabled /\ currentTpnc # NoTpnc
  IN /\ schedules => pendingInjects < MaxPendingInjects
     /\ lastTpnc' = IF PollSeesChange(currentTpnc) THEN currentTpnc ELSE lastTpnc
     /\ pendingInjects' = IF schedules THEN pendingInjects + 1 ELSE pendingInjects
     /\ UNCHANGED <<url, g_isEnabled, g_chartInstance, g_debounceTimer, storageRead>>
     /\ Leave([Untouched EXCEPT !.dom = IF removes THEN dom \ {oldContainer} ELSE dom],
              removes, g_observer)

\* Lines 1138-1142: the timeout set by the poll calls injectPriceTracker.
PollInjectFires ==
  /\ pendingInjects > 0
  /\ pendingInjects' = pendingInjects - 1
  /\ UNCHANGED <<url, lastTpnc, g_isEnabled, g_chartInstance, g_debounceTimer, storageRead>>
  /\ \E r \in Attempts : Leave(injectPriceTracker(dom, r), FALSE, g_observer)

\* The user moves to another location of the single-page application.
Navigate ==
  /\ \E u \in Urls \ {url} : url' = u
  /\ UNCHANGED <<dataVars, lastTpnc, g_isEnabled, g_observer, g_isInjecting,
                 g_chartInstance, g_debounceTimer, dom, containers, inflight,
                 pendingInjects, storageRead, mutationPending, toggleVars>>

\* The FETCH_HISTORY message of a suspended cycle is answered.
FetchSettles == \E cy \in inflight : Resume(cy)

PageNext ==
  \/ InitStorage
  \/ \E enabled \in BOOLEAN : SetEnabled(enabled)
  \/ PageMutation
  \/ ObserverCallback
  \/ DebounceFires
  \/ PollTick
  \/ PollInjectFires
  \/ Navigate
  \/ FetchSettles

PageSpec == PageInit /\ [][PageNext]_vars

\* The callback of the observer clears a pending timeout and sets it anew.
TimerRestarted ==
  /\ g_debounceTimer # NoTimer
  /\ ObserverSets # NoTimer
  /\ ObserverCallback

\* Timers fire, promises settle and queued mutation records are delivered;
\* nothing obliges the user to navigate or to switch, nor the page to change.
\* The timeout of the observer fires 200 ms after it was last set: a pending
\* one fires unless the callback keeps setting it anew.
PageFairness ==
  /\ WF_vars(InitStorage)
  /\ WF_vars(ObserverCallback)
  /\ WF_vars(DebounceFires \/ TimerRestarted)
  /\ WF_vars(PollTick)
  /\ WF_vars(PollInjectFires)
  /\ WF_vars(FetchSettles)

FairPageSpec == PageSpec /\ PageFairness

\* A suspended cycle is resumed and ends.  Of the steps of PageNext those of
\* FetchSettles, and no others, take a cycle out of inflight, and one is
\* possible whenever a cycle is suspended.
CycleLeaves == \E cy \in inflight : inflight' = inflight \ {cy}

\* Every fetch settles: the background answers each FETCH_HISTORY message or
\* the promise rejects (weak fairness of FetchSettles, stated on the cycle
\* that leaves inflight).  Nothing else is obliged to happen.
SettlingSpec == PageSpec /\ WF_inflight(CycleLeaves)

(***************************************************************************)
(* The switch of the popup and its relay by the background script.         *)
(***************************************************************************)
\* The popup has loaded: the switch is as its page has it, checked or not, the
\* change handler is registered and the read of the stored state is on its way
\* (part_001 15-40); the storage serves it before any write asked for later.
\* The tabs are any MaxTabs of the kinds above.  The page of the content script
\* stays as loaded.
ToggleInit ==
  /\ PageLoaded
  /\ url.tpnc = NoTpnc
  /\ extensionEnabled \in {[value |-> b, by |-> 0] : b \in BOOLEAN}
  /\ checked \in BOOLEAN
  /\ popupRead = [pending |-> TRUE, value |-> extensionEnabled.value]
  /\ clicked = <<>>
  /\ writes = <<>>
  /\ handlers = <<>>
  /\ toBackground = <<>>
  /\ toggling = {}
  /\ tabs \in [1..MaxTabs -> TabStates]
  /\ attempts = {}
  /\ finished = {}

\* part_001 32-36: the read resolves and updateUI shows the value it got.
PopupShowsStored ==
  /\ popupRead.pending
  /\ popupRead' = [popupRead EXCEPT !.pending = FALSE]
  /\ checked' = popupRead.value
  /\ UNCHANGED <<extensionEnabled, clicked, writes, handlers, toBackground, toggling,
                 tabs, attempts, finished>>
  /\ UNCHANGED <<dataVars, pageVars>>

\* part_001 40-44: the user flips the switch; the handler reads the new state,
\* calls storage.local.set and is suspended at the await.
Toggle ==
  /\ Len(clicked) < MaxToggles
  /\ LET isEnabled == ~checked
         call == [n |-> Len(clicked) + 1, enabled |-> isEnabled]
     IN /\ checked' = isEnabled
        /\ clicked' = Append(clicked, isEnabled)
        /\ writes' = Append(writes, call)
        /\ handlers' = Append(handlers, call)
  /\ UNCHANGED <<extensionEnabled, popupRead, toBackground, toggling, tabs, attempts,
                 finished>>
  /\ UNCHANGED <<dataVars, pageVars>>

\* The storage does the oldest write it was asked for.
StorageSet ==
  /\ writes # <<>>
  /\ extensionEnabled' = [value |-> Head(writes).enabled, by |-> Head(writes).n]
  /\ writes' = Tail(writes)
  /\ UNCHANGED <<checked, popupRead, clicked, handlers, toBackground, toggling, tabs,
                 attempts, finished>>
  /\ UNCHANGED <<dataVars, pageVars>>

\* part_001 44: the handler goes on when the promise of its write has resolved.
WriteAwaited_Not(h) == TRUE

WriteAwaited(h) == \A i \in 1..Len(writes) : writes[i].n # h.n

\* part_001 46-53: updateUI, then the TOGGLE_EXTENSION message.
PopupResumes ==
  /\ handlers # <<>>
  /\ WriteAwaited(Head(handlers))
  /\ checked' = Head(handlers).enabled
  /\ toBackground' = Append(toBackground, Head(handlers))
  /\ handlers' = Tail(handlers)
  /\ UNCHANGED <<extensionEnabled, popupRead, clicked, writes, toggling, tabs, attempts,
                 finished>>
  /\ UNCHANGED <<dataVars, pageVars>>

\* background.js 89-93 and 103-104: the message is received, handleToggle is
\* called and is suspended at the await of tabs.query.
BackgroundReceives ==
  /\ toBackground # <<>>
  /\ toBackground' = Tail(toBackground)
  /\ toggling' = toggling \cup
       {[n |-> Head(toBackground).n, enabled |-> Head(toBackground).enabled, at |-> 0]}
  /\ UNCHANGED <<extensionEnabled, checked, popupRead, clicked, writes, handlers, tabs,
                 attempts, finished>>
  /\ UNCHANGED <<dataVars, pageVars>>

\* background.js 106-108.
Eligible(tab) == ~(tab.url = NoUrl \/ tab.url = "about:" \/ tab.url = "moz-extension:")

\* No tab is left for the loop.
LoopOver == MaxTabs + 1

\* background.js 105-108: the next tab after tab i the loop sends to.
NextSend(i) ==
  LET rest == {j \in (i + 1)..Len(tabs) : Eligible(tabs[j])}
  IN IF rest = {} THEN LoopOver ELSE CHOOSE j \in rest : \A k \in rest : j <= k

\* background.js 114-116: the catch is inside the loop, which goes on.
AfterFailure_Stops(i) == LoopOver

AfterFailure(i) == NextSend(i)

\* The call c of handleToggle goes to tab next, or returns.
Proceed(c, next) ==
  /\ toggling' = (toggling \ {c}) \cup
       (IF next = LoopOver THEN {} ELSE {[c EXCEPT !.at = next]})
  /\ finished' = IF next = LoopOver THEN finished \cup {c.n} ELSE finished

\* background.js 104-110: tabs.query resolves; the loop skips to the first tab
\* it sends to and is suspended at the await of tabs.sendMessage.
QueryResolves ==
  \E c \in toggling :
    /\ c.at = 0
    /\ Proceed(c, NextSend(0))
    /\ UNCHANGED <<extensionEnabled, checked, popupRead, clicked, writes, handlers,
                   toBackground, tabs, attempts>>
    /\ UNCHANGED <<dataVars, pageVars>>

\* background.js 109-116: the message to tab c.at is handed to the listener of
\* its content script (content.js 1032-1043), or the promise rejects; the loop
\* goes on either way.  What the content script would read from the storage
\* at that moment is kept with the attempt.
SendSettles ==
  \E c \in toggling :
    /\ c.at # 0
    /\ LET delivered == tabs[c.at].listening
       IN /\ attempts' = attempts \cup
               {[n |-> c.n, tab |-> c.at, enabled |-> c.enabled, delivered |-> delivered,
                 stored |-> extensionEnabled.value, storedBy |-> extensionEnabled.by]}
          /\ Proceed(c, IF delivered THEN NextSend(c.at) ELSE AfterFailure(c.at))
    /\ UNCHANGED <<extensionEnabled, checked, popupRead, clicked, writes, handlers,
                   toBackground, tabs>>
    /\ UNCHANGED <<dataVars, pageVars>>

ToggleNext ==
  \/ PopupShowsStored
  \/ Toggle
  \/ StorageSet
  \/ PopupResumes
  \/ BackgroundReceives
  \/ QueryResolves
  \/ SendSettles

ToggleSpec == ToggleInit /\ [][ToggleNext]_vars

(***************************************************************************)
(* Notions the properties are stated with.                                 *)
(***************************************************************************)
Rendered == pc = "rendered"

\* Positions of the known (non-null) prices of a list.
Known(ps) == {i \in 1..Len(ps) : ps[i] # Null}

RECURSIVE SumKnown(_, _)
\* Sum of the known prices among the first n of a list.
SumKnown(ps, n) ==
  IF n = 0 THEN 0 ELSE SumKnown(ps, n - 1) + (IF ps[n] # Null THEN ps[n] ELSE 0)

\* The records of the history whose timestamp gives them a date, and the
\* calendar day parseDate puts a record on.
Dated(h) == {k \in 1..Len(h) : h[k].timestamp.kind # "malformed"}
DayOf(r) == formatDate(parseDate(r.timestamp, now))
AllIso(h) == \A k \in 1..Len(h) : h[k].timestamp.kind = "iso"

\* The history without its k-th record.
Without(h, k) == SubSeq(h, 1, k - 1) \o SubSeq(h, k + 1, Len(h))

\* Observations of 100 on day D and 120 on day D + 2, today being D + 2.
ScenarioHistory ==
  <<[timestamp |-> [kind |-> "iso", t |-> (Today - 2) * OneDay + 9 * Hour],
     price_actual |-> Ft(100), clubcard_price |-> Null],
    [timestamp |-> [kind |-> "iso", t |-> Today * OneDay + 9 * Hour],
     price_actual |-> Ft(120), clubcard_price |-> Null]>>

(***************************************************************************)
(* C1.  For every non-empty list of observations the series returned by    *)
(* processRealData has daysBetween(firstObservedDay, today) + 1 entries,   *)
(* entry i stands for day firstObservedDay + i, and the last entry is      *)
(* today.                                                                  *)
(***************************************************************************)
C1_SeriesSpansFirstDayToToday ==
  (Rendered /\ Dated(history) # {}) =>
    LET days == {DayOf(history[k]) : k \in Dated(history)}
        first == CHOOSE d \in days : \A e \in days : d <= e
        today == formatDate(now)
        n == Len(processed.labels)
    IN /\ n = Abs(today - first) + 1
       /\ \A i \in 1..n : processed.labels[i] = first + (i - 1)
       /\ processed.labels[n] = today

(***************************************************************************)
(* C2.  No interpolation: a day of the series on which no observation      *)
(* falls has null for the actual and the clubcard price, a day on which an *)
(* observation falls carries an actual price observed on that day, and the *)
(* length of the series is the number of observed days plus the number of  *)
(* gap days.                                                               *)
(***************************************************************************)
C2_NoInterpolation ==
  Rendered =>
    LET n == Len(processed.labels)
        obs(i) == {k \in Dated(history) : DayOf(history[k]) = processed.labels[i]}
        observedDays == {processed.labels[i] : i \in {j \in 1..n : obs(j) # {}}}
        gapDays == {processed.labels[i] : i \in {j \in 1..n : obs(j) = {}}}
    IN /\ \A i \in 1..n :
            IF obs(i) = {}
            THEN processed.prices[i] = Null /\ processed.clubcardPrices[i] = Null
            ELSE processed.prices[i] \in {history[k].price_actual : k \in obs(i)}
       /\ n = Cardinality(observedDays) + Cardinality(gapDays)

(***************************************************************************)
(* C3.  When two or more observations fall on the same calendar day, the   *)
(* entry of that day carries the prices of the observation with the latest *)
(* original timestamp, whatever the order of the input array.              *)
(***************************************************************************)
C3_LatestCaptureWins ==
  (Rendered /\ AllIso(history)) =>
    \A i \in 1..Len(processed.labels) :
      LET obs == {k \in 1..Len(history) : DayOf(history[k]) = processed.labels[i]}
          latest == {k \in obs : \A j \in obs : history[j].timestamp.t <= history[k].timestamp.t}
      IN Cardinality(obs) >= 2 =>
           \E k \in latest :
             /\ processed.prices[i] = history[k].price_actual
             /\ processed.clubcardPrices[i] = OrNull(history[k].clubcard_price)

(***************************************************************************)
(* C4.  A record whose timestamp cannot be parsed is skipped: at whatever  *)
(* position it stands, processRealData returns the series it returns for   *)
(* the list without that record.                                          *)
(***************************************************************************)
C4_MalformedRecordSkipped ==
  Rendered =>
    \A k \in 1..Len(history) :
      history[k].timestamp.kind = "malformed" =>
        processed \in processRealData(Without(history, k), now)

(***************************************************************************)
(* C5.  calculateStats uses known prices only: min is the smallest, max    *)
(* the largest and avg the mean, rounded to the nearest integer, of the    *)
(* non-null actual prices; null entries do not change the result; for 100  *)
(* on day D and 120 on day D + 2 with today = D + 2: min 100, max 120,     *)
(* avg 110.                                                                *)
(***************************************************************************)
C5_StatsFromKnownPricesOnly ==
  Rendered =>
    LET ps == chart.prices
        K == Known(ps)
        n == Cardinality(K)
    IN /\ K # {} =>
            /\ derived.min \in {ps[i] : i \in K} /\ \A i \in K : derived.min <= ps[i]
            /\ derived.max \in {ps[i] : i \in K} /\ \A i \in K : derived.max >= ps[i]
            /\ derived.avg % PriceUnit = 0
            /\ 2 * Abs(n * derived.avg - SumKnown(ps, Len(ps))) <= n * PriceUnit
       /\ derived = calculateStats(SelectSeq(ps, LAMBDA p : p # Null))
       /\ history = ScenarioHistory =>
            /\ ps = <<Ft(100), Null, Ft(120)>>
            /\ derived.min = Ft(100) /\ derived.max = Ft(120) /\ derived.avg = Ft(110)

\* The scenario has been rendered: a gap lies between the two known prices.
C5_Witness ==
  /\ Rendered
  /\ history = ScenarioHistory
  /\ chart.prices = <<Ft(100), Null, Ft(120)>>
  /\ derived.avg = Ft(110)

(***************************************************************************)
(* C6.  current is the last non-null actual price of the series in day     *)
(* order, also when the trailing days are gaps; trend is current minus the *)
(* first non-null actual price; a price decrease gives trend <= 0.         *)
(***************************************************************************)
C6_CurrentAndTrend ==
  Rendered =>
    LET ps == chart.prices
        K == Known(ps)
    IN K # {} =>
         LET lastK == CHOOSE i \in K : \A j \in K : j <= i
             firstK == CHOOSE i \in K : \A j \in K : i <= j
         IN /\ derived.current = ps[lastK]
            /\ derived.trend = ps[lastK] - ps[firstK]
            /\ ps[lastK] <= ps[firstK] => derived.trend <= 0

\* A price that fell from 120 to 100, followed by a trailing gap.
C6_Witness ==
  /\ Rendered
  /\ Len(chart.prices) = 3
  /\ chart.prices[1] = Ft(120) /\ chart.prices[2] = Ft(100) /\ chart.prices[3] = Null
  /\ derived.current = Ft(100)
  /\ derived.trend = Ft(-20)

(***************************************************************************)
(* C7.  trendPercent is trend / first * 100 to one decimal place when the  *)
(* first known price is not zero and the fixed value "0.0" when it is      *)
(* zero; no division by zero takes place.                                  *)
(***************************************************************************)
C7_TrendPercent ==
  Rendered =>
    LET ps == chart.prices
        K == Known(ps)
    IN K # {} =>
         LET first == ps[CHOOSE i \in K : \A j \in K : i <= j]
             trend == derived.trend
         IN IF first = 0
            THEN derived.trendPercent = "0.0"
            ELSE \E t \in {(1000 * Abs(trend)) \div first, (1000 * Abs(trend)) \div first + 1} :
                   /\ 2 * Abs(t * first - 1000 * Abs(trend)) <= first
                   /\ derived.trendPercent =
                        (IF trend < 0 THEN "-" ELSE "")
                          \o Decimal(t \div 10) \o "." \o Digit(t % 10)

\* A history whose first known price is zero and whose current price is not.
C7_Witness ==
  /\ Rendered
  /\ chart.prices = <<0, Ft(100)>>
  /\ derived.trend = Ft(100)
  /\ derived.trendPercent = "0.0"

(***************************************************************************)
(* C8.  For an empty list, or a list of null prices only, calculateStats   *)
(* returns min 0, max 0, avg 0, current 0, trend 0, trendPercent "0.0";    *)
(* an empty history gives an empty series and these statistics.            *)
(***************************************************************************)
C8_NoDataStats ==
  Rendered =>
    /\ Known(chart.prices) = {} =>
         derived = [min |-> 0, max |-> 0, avg |-> 0, current |-> 0, trend |-> 0,
                    trendPercent |-> "0.0"]
    /\ Len(history) = 0 =>
         /\ chart.labels = <<>> /\ chart.prices = <<>> /\ chart.clubcardPrices = <<>>
         /\ derived = [min |-> 0, max |-> 0, avg |-> 0, current |-> 0, trend |-> 0,
                       trendPercent |-> "0.0"]

\* A series that is not empty and holds null prices only.
C8_Witness ==
  /\ Rendered
  /\ Len(chart.prices) = 2
  /\ Known(chart.prices) = {}
  /\ derived.trendPercent = "0.0"

(***************************************************************************)
(* C9.  Live override: with a live page price present and greater than 0   *)
(* the displayed current value is the live price, otherwise it is the      *)
(* current value computed from the history; min, max, avg, trend and       *)
(* trendPercent are those computed from the history alone.  One            *)
(* observation of 100 and a live price of 90: current 90, min = max = avg  *)
(* = 100.                                                                  *)
(***************************************************************************)
C9_LiveOverrideOnlyCurrent ==
  Rendered =>
    LET h == calculateStats(chart.prices)
    IN /\ stats.current = IF pagePrice # Null /\ pagePrice > 0 THEN pagePrice ELSE h.current
       /\ stats.min = h.min /\ stats.max = h.max /\ stats.avg = h.avg
       /\ stats.trend = h.trend /\ stats.trendPercent = h.trendPercent
       /\ (chart.prices = <<Ft(100)>> /\ pagePrice = Ft(90)) =>
            /\ stats.current = Ft(90)
            /\ stats.min = Ft(100) /\ stats.max = Ft(100) /\ stats.avg = Ft(100)

\* One observation of 100 today and a live price of 90.
C9_Witness ==
  /\ Rendered
  /\ chart.prices = <<Ft(100)>>
  /\ pagePrice = Ft(90)
  /\ stats.current = Ft(90)
  /\ derived.current = Ft(100)

(***************************************************************************)
(* C10.  The live override leaves the series unchanged: every entry (day,  *)
(* actual price, clubcard price) handed to the chart is the entry          *)
(* processRealData produced, for every live price.                         *)
(***************************************************************************)
C10_OverrideKeepsSeries ==
  (Rendered /\ Len(history) > 0) =>
    /\ processed \in processRealData(history, now)
    /\ chart.labels = processed.labels
    /\ chart.prices = processed.prices
    /\ chart.clubcardPrices = processed.clubcardPrices

\* A live price of 90 overrides the current value of a series that ends with
\* another price and carries a clubcard price.
C10_Witness ==
  /\ Rendered
  /\ pagePrice = Ft(90)
  /\ stats.current = Ft(90)
  /\ Len(chart.prices) = 2
  /\ chart.prices[2] = Ft(100) - 1
  /\ chart.clubcardPrices[1] = Ft(90)

(***************************************************************************)
(* Notions the properties of the page are stated with.                     *)
(***************************************************************************)
\* A widget of the product of the URL is in the document with its chart.
WidgetRendered ==
  \E c \in dom : containers[c].tpnc = url.tpnc /\ containers[c].hasChart

\* The cycles that end in the step.
Ended == inflight \ inflight'

\* The answer of the cycle carries no record: a failure or an empty history.
Failed(cy) == cy.response.kind = "failed"
Empty(cy) == cy.response.kind = "ok" /\ Len(cy.response.history) = 0

\* The series processRealData is asked for a list, none for an empty one.
SeriesOf(h, n) == IF Len(h) > 0 THEN processRealData(h, n) ELSE {EmptySeries}

(***************************************************************************)
(* C11.  Single flight: whatever the order of the triggers (the read of    *)
(* the stored switch, SET_ENABLED, the timeouts of the observer and of the *)
(* URL poll), at most one cycle of injectPriceTracker is between its start *)
(* and its end; a trigger during a cycle starts no second one.             *)
(***************************************************************************)
C11_SingleFlight == Cardinality(inflight) <= 1

\* A cycle is suspended while a timeout of the observer and one of the poll
\* are about to call injectPriceTracker.
C11_Witness ==
  /\ Cardinality(inflight) = 1
  /\ g_debounceTimer.kind # "none"
  /\ pendingInjects > 0

(***************************************************************************)
(* C12.  Staleness: a cycle started for product A whose fetch completes    *)
(* while the URL names another product renders nothing (no chart is made,  *)
(* no statistic of A is shown), takes its own container out of the         *)
(* document and ends normally.                                             *)
(***************************************************************************)
C12_StaleCycleRendersNothing ==
  [][\A cy \in Ended :
       url.tpnc # cy.tpnc =>
         /\ UNCHANGED <<processed, hasHistory, derived, stats, chart, g_chartInstance>>
         /\ cy.container \notin dom'
         /\ \A c \in dom' : containers'[c] = containers[c]
         /\ ~g_isInjecting']_vars

\* The last cycle ended without rendering, and product B is on the page.
C12_Witness ==
  /\ pc = "awaiting"
  /\ inflight = {}
  /\ url.tpnc = "B"
  /\ dom = {}

(***************************************************************************)
(* C13.  A trigger for a new product that arrives during a cycle is not    *)
(* lost: with a cycle of A in flight and B on the page, unless the         *)
(* extension is switched off or the page leaves B, the widget of B is      *)
(* eventually rendered.                                                    *)
(***************************************************************************)
C13_DroppedTriggerIsRequestedAgain ==
  (g_isEnabled /\ storageRead /\ url.tpnc = "B" /\ \E cy \in inflight : cy.tpnc = "A")
    ~> (~g_isEnabled \/ url.tpnc # "B" \/ WidgetRendered)

(***************************************************************************)
(* C14.  A failed fetch is treated like an empty history: the cycle ends   *)
(* normally with the empty series, the zeroed statistics and the no-data   *)
(* chart, the same in both cases.                                          *)
(***************************************************************************)
C14_FailedFetchLikeEmptyHistory ==
  [][\A cy \in Ended :
       (url.tpnc = cy.tpnc /\ (Failed(cy) \/ Empty(cy))) =>
         /\ history' = <<>>
         /\ ~hasHistory'
         /\ derived' = NoStats
         /\ stats' = LiveOverride(NoStats, pagePrice)
         /\ chart' = EmptySeries
         /\ pc' = "rendered"
         /\ g_chartInstance' = cy.container
         /\ ~g_isInjecting']_vars

\* A cycle whose request failed is about to resume on its own product.
C14_Witness ==
  \E cy \in inflight : Failed(cy) /\ url.tpnc = cy.tpnc /\ cy.container \in dom

(***************************************************************************)
(* C15.  No retries: a cycle sends at most one FETCH_HISTORY message; when *)
(* the answer is a failure or holds no record, the same cycle renders the  *)
(* no-data state and ends, no other request being sent.                    *)
(***************************************************************************)
C15_NoRetries ==
  [][/\ \A cy \in inflight' : cy.requests <= 1
     /\ \A cy \in Ended :
          (url.tpnc = cy.tpnc /\ (Failed(cy) \/ Empty(cy))) =>
            (inflight' = {} /\ pc' = "rendered" /\ Len(chart'.labels) = 0)]_vars

\* A cycle has rendered the no-data state and no request is out.
C15_Witness ==
  /\ pc = "rendered"
  /\ ~hasHistory
  /\ inflight = {}
  /\ WidgetRendered

(***************************************************************************)
(* C16.  An observation whose actual price and clubcard price are both     *)
(* null contributes nothing: the series and the statistics are those of    *)
(* the list without it.                                                    *)
(***************************************************************************)
C16_NullObservationContributesNothing ==
  Rendered =>
    \A k \in 1..Len(history) :
      (history[k].price_actual = Null /\ history[k].clubcard_price = Null) =>
        LET expected == SeriesOf(Without(history, k), now)
        IN /\ processed \in expected
           /\ derived \in {calculateStats(q.prices) : q \in expected}

(***************************************************************************)
(* C17.  An observation with no actual price but a clubcard price is kept: *)
(* the entry of its day has a null actual price and that clubcard price,   *)
(* whatever the value, and the entry does not count in the statistics.     *)
(***************************************************************************)
C17_ClubcardOnlyObservationKept ==
  Rendered =>
    \A k \in 1..Len(history) :
      (/\ history[k].timestamp.kind = "iso"
       /\ history[k].price_actual = Null
       /\ history[k].clubcard_price # Null
       /\ \A j \in 1..Len(history) : j # k => DayOf(history[j]) # DayOf(history[k])) =>
        \E i \in 1..Len(processed.labels) :
          /\ processed.labels[i] = DayOf(history[k])
          /\ processed.prices[i] = Null
          /\ processed.clubcardPrices[i] = history[k].clubcard_price
          /\ derived = calculateStats(Without(processed.prices, i))

(***************************************************************************)
(* C18.  processRealData is deterministic: called again on the same list   *)
(* at any moment of the same day it returns the same series.               *)
(***************************************************************************)
C18_SameListSameDaySameSeries ==
  Rendered =>
    \A hour \in 0..23 :
      SeriesOf(history, setHoursMidnight(now) + hour * Hour) = SeriesOf(history, now)

(***************************************************************************)
(* The steps that trigger injectPriceTracker: the timeout of the poll      *)
(* (1141), the timeouts of the observer (1061-1063 and 1086-1091), the     *)
(* SET_ENABLED true message (1036) and the read of the stored switch       *)
(* (1113).                                                                 *)
(***************************************************************************)
C19_Trigger ==
  \/ PollInjectFires
  \/ DebounceFires
  \/ SetEnabled(TRUE)
  \/ InitStorage

\* A widget of the product of the URL, with its chart, is among the
\* containers d.
RenderedIn(d) ==
  \E c \in d : containers[c].tpnc = url.tpnc /\ containers[c].hasChart

\* The timeout of lines 1086-1091 is the one pending, it is not held back by
\* line 1087, and the element its closure holds is the rendered widget: the
\* document is left without one by container.remove() (line 1089).
C19_ReplacesTheWidget ==
  /\ g_debounceTimer.kind = "replace"
  /\ ~g_isInjecting
  /\ ~RenderedIn(dom \ {g_debounceTimer.container})

(***************************************************************************)
(* C19 as stated.  A trigger of injectPriceTracker while the widget of the *)
(* same product is in the document with its chart does nothing: no         *)
(* container is removed or made, no FETCH_HISTORY is sent, the chart       *)
(* instance stays; so for every trigger, however often.                    *)
(***************************************************************************)
C19_EveryTriggerOnRenderedWidgetDoesNothing ==
  [][(WidgetRendered /\ C19_Trigger) =>
       UNCHANGED <<dom, containers, inflight, g_chartInstance, dataVars>>]_vars

(***************************************************************************)
(* C19.  A trigger of injectPriceTracker while the widget of the same      *)
(* product is in the document with its chart does nothing (no container is *)
(* removed or made, no FETCH_HISTORY is sent, the chart instance stays),   *)
(* however often it repeats, with one exception: the replace timeout of    *)
(* the observer whose closure holds that widget takes it out of the        *)
(* document before it calls injectPriceTracker.                            *)
(***************************************************************************)
C19_TriggerOnRenderedWidgetDoesNothing ==
  [][(WidgetRendered /\ C19_Trigger) =>
       IF DebounceFires /\ C19_ReplacesTheWidget
       THEN g_debounceTimer.container \notin dom'
       ELSE UNCHANGED <<dom, containers, inflight, g_chartInstance, dataVars>>]_vars

\* Two timeouts of the poll are about to call injectPriceTracker on a
\* rendered widget, and so is a replace timeout of the observer that holds
\* an element no longer in the document.
C19_Witness ==
  /\ WidgetRendered
  /\ pendingInjects = 2
  /\ inflight = {}
  /\ g_debounceTimer.kind = "replace"
  /\ g_debounceTimer.container \notin dom

(***************************************************************************)
(* C20.  The URL poll reacts to a change of the product id only: with the  *)
(* id unchanged the widget is neither removed nor injected again; with the *)
(* id of another product the old widget is removed and, the extension      *)
(* being enabled, exactly one injection is scheduled.                      *)
(***************************************************************************)
C20_PollReactsToProductChangeOnly ==
  [][PollTick =>
       /\ url.tpnc = lastTpnc =>
            UNCHANGED <<dom, containers, inflight, pendingInjects, lastTpnc, g_chartInstance>>
       /\ (url.tpnc # lastTpnc /\ url.tpnc \in Tpncs) =>
            /\ dom' = dom \ {getElementById(dom)}
            /\ inflight' = inflight
            /\ lastTpnc' = url.tpnc
            /\ pendingInjects' = pendingInjects + (IF g_isEnabled THEN 1 ELSE 0)]_vars

\* The poll has seen the page go to product B: the widget is out and one
\* injection is scheduled.
C20_Witness ==
  /\ lastTpnc = "B"
  /\ url.tpnc = "B"
  /\ g_isEnabled
  /\ pendingInjects = 1
  /\ dom = {}

(***************************************************************************)
(* C21.  On a TOGGLE_EXTENSION message the background script sends         *)
(* SET_ENABLED with the new state to every open tab whose URL is set and   *)
(* is neither an about: nor a moz-extension: URL; a failure to deliver to  *)
(* one tab does not stop the delivery to the tabs after it.                *)
(***************************************************************************)
C21_EveryEligibleTabIsSentTo ==
  LET open == {t \in 1..Len(tabs) : tabs[t].url \notin {NoUrl, "about:", "moz-extension:"}}
  IN /\ \A a \in attempts :
          /\ a.tab \in open
          /\ a.enabled = clicked[a.n]
          /\ a.delivered <=> tabs[a.tab].listening
     /\ \A n \in finished : {a.tab : a \in {b \in attempts : b.n = n}} = open

\* The first tab had no content script, the second got the message.
C21_Witness ==
  \E n \in finished :
    /\ \E a \in attempts : a.n = n /\ a.tab = 1 /\ ~a.delivered
    /\ \E a \in attempts : a.n = n /\ a.tab = 2 /\ a.delivered /\ a.enabled = clicked[n]

(***************************************************************************)
(* C22.  The popup writes the new state to the storage and the write is    *)
(* done before TOGGLE_EXTENSION is sent, so a content script that gets the *)
(* resulting SET_ENABLED and then reads extensionEnabled reads the value   *)
(* the message carried.                                                    *)
(***************************************************************************)
C22_StoredIsWhatTheMessageCarried ==
  \A a \in attempts : a.delivered => a.stored = a.enabled

(***************************************************************************)
(* C22, as it holds.  The write of a toggle is done before its             *)
(* TOGGLE_EXTENSION is sent; a content script that gets the resulting      *)
(* SET_ENABLED reads from the storage the value of that toggle or of a     *)
(* later one, and the value the message carried when no later toggle has   *)
(* written.                                                                *)
(***************************************************************************)
C22_StoredIsOfThisToggleOrLater ==
  /\ \A i \in 1..Len(toBackground) : extensionEnabled.by >= toBackground[i].n
  /\ \A c \in toggling : extensionEnabled.by >= c.n
  /\ \A a \in attempts :
       a.delivered =>
         /\ a.storedBy >= a.n
         /\ a.stored = clicked[a.storedBy]
         /\ a.storedBy = a.n => a.stored = a.enabled

\* The message of the first toggle arrived after the second toggle had
\* written, and the message of the second arrived too.
C22_Witness ==
  /\ \E a \in attempts : a.delivered /\ a.n = 1 /\ a.storedBy = 2 /\ a.stored # a.enabled
  /\ \E a \in attempts : a.delivered /\ a.n = 2 /\ a.storedBy = 2

(***************************************************************************)
(* C23.  The in-flight flag is always released: g_isInjecting is true only *)
(* while a cycle is in flight, every way a cycle ends sets it false, and,  *)
(* every fetch settling eventually, from every state a state with          *)
(* g_isInjecting false is reached.                                         *)
(***************************************************************************)
C23_FlagAlwaysReleased ==
  /\ [](g_isInjecting => inflight # {})
  /\ [][Ended # {} => ~g_isInjecting']_vars
  /\ []<>(~g_isInjecting)

\* The cycle of B has rendered after the user left A, and the flag is down.
C23_Witness ==
  /\ ~g_isInjecting
  /\ inflight = {}
  /\ pc = "rendered"
  /\ g_isEnabled
  /\ \E c \in dom : containers[c].tpnc = "B" /\ containers[c].hasChart

(***************************************************************************)
(* C24.  While the extension is disabled the page holds no widget: once    *)
(* SET_ENABLED false is handled no container is in the document, and none  *)
(* is put there before SET_ENABLED true, whatever fetch or timeout was     *)
(* pending.                                                                *)
(***************************************************************************)
C24_DisabledPageHoldsNoWidget ==
  [][/\ (storageRead /\ g_isEnabled /\ ~g_isEnabled') => dom' = {}
     /\ (storageRead /\ ~g_isEnabled /\ ~g_isEnabled' /\ dom = {}) => dom' = {}]_vars

(***************************************************************************)
(* C25.  A cycle that reaches its render step (the product of the URL is   *)
(* its own when the fetch completes) renders into a container that is      *)
(* still in the document: no other handler has taken it out.               *)
(***************************************************************************)
C25_RenderedContainerIsAttached ==
  [][\A cy \in Ended : url.tpnc = cy.tpnc => cy.container \in dom]_vars

(***************************************************************************)
(* C26.  At most one tracker container is in the document, in every state  *)
(* and under every order of the handlers.                                  *)
(***************************************************************************)
C26_AtMostOneContainer == Cardinality(dom) <= 1

\* The container of B has replaced the rendered widget of A.
C26_Witness ==
  /\ Cardinality(dom) = 1
  /\ \E c \in dom : containers[c].tpnc = "B" /\ containers[c].loading
  /\ g_chartInstance # NoContainer
  /\ g_chartInstance \notin dom

(***************************************************************************)
(* C27.  The series never reaches into the future: whatever the list,      *)
(* with observations dated after today or without timestamp, no entry of   *)
(* the series stands for a day later than today.                           *)
(***************************************************************************)
C27_NoEntryAfterToday ==
  Rendered =>
    \A i \in 1..Len(processed.labels) :
      processed.labels[i] <= formatDate(setHoursMidnight(now))

(***************************************************************************)
(* C28.  For a series with at least one non-null actual price the result   *)
(* of calculateStats has min <= avg <= max and min <= current <= max, and  *)
(* max - min is not negative.                                              *)
(***************************************************************************)
C28_StatsWithinRange ==
  (Rendered /\ Known(chart.prices) # {}) =>
    /\ derived.min <= derived.avg /\ derived.avg <= derived.max
    /\ derived.min <= derived.current /\ derived.current <= derived.max
    /\ derived.max - derived.min >= 0

\* C28 as it holds: avg, a number of whole forints, lies within half a forint
\* of the range from min to max, and within it when the known prices are
\* whole forints; current lies between min and max, and max - min is not
\* negative.
C28_StatsWithinRangeRounded ==
  (Rendered /\ Known(chart.prices) # {}) =>
    /\ 2 * (derived.min - derived.avg) <= PriceUnit
    /\ 2 * (derived.avg - derived.max) <= PriceUnit
    /\ (\A i \in Known(chart.prices) : chart.prices[i] % PriceUnit = 0) =>
         (derived.min <= derived.avg /\ derived.avg <= derived.max)
    /\ derived.min <= derived.current /\ derived.current <= derived.max
    /\ derived.max - derived.min >= 0

\* A price of 99.5 Ft alone: the average is 100 Ft, above the maximum.
C28_Witness ==
  /\ Rendered
  /\ chart.prices = <<Ft(100) - 1>>
  /\ derived.avg = Ft(100)
  /\ derived.max = Ft(100) - 1

====
